---- MODULE Spec2Model ----
(***************************************************************************)
(* Modbus-RTU probing tools: CRC codec, frame builders                      *)
(* (modbus_write_injector.py), the slave responder / fuzzer                 *)
(* (rs485_fuzz.py) and the register enumerator (reg_map_sweep.py).          *)
(*                                                                          *)
(* Bytes are integers 0..255, byte strings are sequences of bytes.          *)
(* A serial receive stream is a sequence of bytes and TIMEOUT marks: a      *)
(* mark stands for a silence on the line longer than the read timeout.      *)
(***************************************************************************)
EXTENDS Integers, Sequences, FiniteSets, TLC

\* ------------------------------------------------------------------ bounds
MaxLen == 3          \* longest arbitrary byte string given to the codec
MaxActual == 4       \* largest actual_bytes given to build_huge besides 600
MaxPolls == 9        \* the bus stops sending once the responder has answered this often
MaxFuzzN == 3        \* largest fault interval (--fuzz) explored
SweepLen == 3        \* registers the sweep visits, from POLL_REG - 1 on
RangeLen == 2        \* registers the sweep is followed over at each end of its range

\* ------------------------------------------------------- python primitives
Min(a, b) == IF a < b THEN a ELSE b
Max(a, b) == IF a > b THEN a ELSE b

RECURSIVE Xor(_, _)
\* a ^ b on non-negative integers
Xor(a, b) ==
  IF a = 0 THEN b
  ELSE IF b = 0 THEN a
  ELSE ((a + b) % 2) + 2 * Xor(a \div 2, b \div 2)

RECURSIVE BitOr(_, _)
\* a | b on non-negative integers
BitOr(a, b) ==
  IF a = 0 THEN b
  ELSE IF b = 0 THEN a
  ELSE (IF a % 2 = 1 \/ b % 2 = 1 THEN 1 ELSE 0) + 2 * BitOr(a \div 2, b \div 2)

\* f[:-2] and f[-2:] of a bytes object
DropLast2(f) == SubSeq(f, 1, Len(f) - 2)
Last2(f) == SubSeq(f, Max(1, Len(f) - 1), Len(f))

\* struct.error: what a builder "returns" when struct.pack raises
StructError == << -1 >>

\* struct.pack of one field: "B" unsigned byte, ">H" / "<H" unsigned short
PackB(x) == IF x \in 0..255 THEN << x >> ELSE StructError
PackHbe(x) == IF x \in 0..65535 THEN << x \div 256, x % 256 >> ELSE StructError
PackHle(x) == IF x \in 0..65535 THEN << x % 256, x \div 256 >> ELSE StructError

RECURSIVE Concat(_)
\* concatenation of packed fields; struct.error in any field raises
Concat(parts) ==
  IF parts = << >> THEN << >>
  ELSE LET rest == Concat(Tail(parts))
       IN IF Head(parts) = StructError \/ rest = StructError
          THEN StructError
          ELSE Head(parts) \o rest

\* struct.unpack(">H", two bytes)
UnpackHbe(d) == d[1] * 256 + d[2]

\* --------------------------------------- CRC, modbus_write_injector.py copy
RECURSIVE crc16_bits(_, _)
crc16_bits(c, n) ==
  IF n = 0 THEN c
  ELSE crc16_bits(IF c % 2 = 1 THEN Xor(c \div 2, 40961) ELSE c \div 2, n - 1)

RECURSIVE crc16_from(_, _, _, _)
\* the loop over bytes lo..hi of data, in order, split in halves; the test
\* on c makes TLC evaluate the running value before it descends
crc16_from(data, lo, hi, c) ==
  IF c < 0 \/ lo > hi THEN c
  ELSE IF lo = hi THEN crc16_bits(Xor(c, data[lo]), 8)
  ELSE LET mid == (lo + hi) \div 2
       IN crc16_from(data, mid + 1, hi, crc16_from(data, lo, mid, c))

\* mutant: initial value 0x0000 instead of 0xFFFF
crc16_init0(data) == crc16_from(data, 1, Len(data), 0) % 65536

crc16(data) == crc16_from(data, 1, Len(data), 65535) % 65536

\* mutant: CRC packed big-endian
le_crc_be(data) == PackHbe(crc16(data))

le_crc(data) == PackHle(crc16(data))

\* ------------------------------------------------- CRC, rs485_fuzz.py copy
RECURSIVE crc_bits(_, _)
crc_bits(crc_val, n) ==
  IF n = 0 THEN crc_val
  ELSE IF crc_val % 2 = 1
       THEN crc_bits(Xor(crc_val \div 2, 40961), n - 1)
       ELSE crc_bits(crc_val \div 2, n - 1)

RECURSIVE crc_from(_, _, _, _)
\* the loop over bytes lo..hi of frame, in order, split in halves; the test
\* on crc_val makes TLC evaluate the running value before it descends
crc_from(frame, lo, hi, crc_val) ==
  IF crc_val < 0 \/ lo > hi THEN crc_val
  ELSE IF lo = hi THEN crc_bits(Xor(crc_val, frame[lo]), 8)
  ELSE LET mid == (lo + hi) \div 2
       IN crc_from(frame, mid + 1, hi, crc_from(frame, lo, mid, crc_val))

crc(frame) == PackHle(crc_from(frame, 1, Len(frame), 65535))

\* ---------------------------------------------- CRC, reg_map_sweep.py copy
RECURSIVE sweep_crc16_bits(_, _)
sweep_crc16_bits(c, n) ==
  IF n = 0 THEN c
  ELSE sweep_crc16_bits(IF c % 2 = 1 THEN Xor(c \div 2, 40961) ELSE c \div 2, n - 1)

RECURSIVE sweep_crc16_from(_, _, _, _)
\* the loop over bytes lo..hi of data, in order, split in halves; the test
\* on c makes TLC evaluate the running value before it descends
sweep_crc16_from(data, lo, hi, c) ==
  IF c < 0 \/ lo > hi THEN c
  ELSE IF lo = hi THEN sweep_crc16_bits(Xor(c, data[lo]), 8)
  ELSE LET mid == (lo + hi) \div 2
       IN sweep_crc16_from(data, mid + 1, hi, sweep_crc16_from(data, lo, mid, c))

sweep_crc16(data) == sweep_crc16_from(data, 1, Len(data), 65535) % 65536

sweep_le_crc(data) == PackHle(sweep_crc16(data))

\* --------------------- CRC, rw17_overflow.py and broadcast_writer.py copies
RECURSIVE rw17_crc_bits(_, _)
rw17_crc_bits(c, n) ==
  IF n = 0 THEN c
  ELSE rw17_crc_bits(IF c % 2 = 1 THEN Xor(c \div 2, 40961) ELSE c \div 2, n - 1)

RECURSIVE rw17_crc_from(_, _, _, _)
\* the loop over bytes lo..hi of b, in order, split in halves; the test
\* on c makes TLC evaluate the running value before it descends
rw17_crc_from(b, lo, hi, c) ==
  IF c < 0 \/ lo > hi THEN c
  ELSE IF lo = hi THEN rw17_crc_bits(Xor(c, b[lo]), 8)
  ELSE LET mid == (lo + hi) \div 2
       IN rw17_crc_from(b, mid + 1, hi, rw17_crc_from(b, lo, mid, c))

rw17_crc(b) == PackHle(rw17_crc_from(b, 1, Len(b), 65535))

RECURSIVE bcast_crc_bits(_, _)
bcast_crc_bits(c, n) ==
  IF n = 0 THEN c
  ELSE bcast_crc_bits(IF c % 2 = 1 THEN Xor(c \div 2, 40961) ELSE c \div 2, n - 1)

RECURSIVE bcast_crc_from(_, _, _, _)
\* the loop over bytes lo..hi of b, in order, split in halves; the test
\* on c makes TLC evaluate the running value before it descends
bcast_crc_from(b, lo, hi, c) ==
  IF c < 0 \/ lo > hi THEN c
  ELSE IF lo = hi THEN bcast_crc_bits(Xor(c, b[lo]), 8)
  ELSE LET mid == (lo + hi) \div 2
       IN bcast_crc_from(b, mid + 1, hi, bcast_crc_from(b, lo, mid, c))

bcast_crc(b) == PackHle(bcast_crc_from(b, 1, Len(b), 65535))

\* ------------------------------------------------------------- random source
\* random.getrandbits(8) / os.urandom drawn n times: one byte string per seed
Seeds == {0, 1, 85, 255}
RandBytes(seed, n) == [i \in 1..n |-> (seed * i + seed \div 16) % 256]

\* random.randint(0, 0xFFFF): sample values
Values == {0, 7, 4660, 65535}

\* ------------------------------------- modbus_write_injector.py: builders
build_write16(slave, reg, value) ==
  LET body == Concat(<< PackB(slave), PackB(16), PackHbe(reg), PackHbe(1),
                        PackB(2), PackHbe(value % 65536) >>)
  IN IF body = StructError THEN StructError ELSE Concat(<< body, le_crc(body) >>)

\* mutant: byte count left at the single-register value 2
build_wide_bc2(slave, start, qty, seed) ==
  LET payload == RandBytes(seed, qty * 2)
      body == Concat(<< PackB(slave), PackB(16), PackHbe(start), PackHbe(qty),
                        PackB(2), payload >>)
  IN IF body = StructError THEN StructError ELSE Concat(<< body, le_crc(body) >>)

build_wide(slave, start, qty, seed) ==
  LET payload == RandBytes(seed, qty * 2)
      body == Concat(<< PackB(slave), PackB(16), PackHbe(start), PackHbe(qty),
                        PackB(qty * 2), payload >>)
  IN IF body = StructError THEN StructError ELSE Concat(<< body, le_crc(body) >>)

\* mutant: CRC over the header and the declared bytes only
build_huge_declared_crc(slave, start, claim, actual_bytes, seed) ==
  LET payload == RandBytes(seed, actual_bytes)
      body == Concat(<< PackB(slave), PackB(16), PackHbe(start), PackHbe(claim),
                        PackB(claim * 2), payload >>)
  IN IF body = StructError THEN StructError
     ELSE Concat(<< body, le_crc(SubSeq(body, 1, Min(Len(body), 7 + claim * 2))) >>)

build_huge(slave, start, claim, actual_bytes, seed) ==
  LET payload == RandBytes(seed, actual_bytes)
      body == Concat(<< PackB(slave), PackB(16), PackHbe(start), PackHbe(claim),
                        PackB(claim * 2), payload >>)
  IN IF body = StructError THEN StructError ELSE Concat(<< body, le_crc(body) >>)

build_badcrc(slave, reg, value) ==
  LET f == build_write16(slave, reg, value)
  IN IF f = StructError THEN StructError ELSE DropLast2(f) \o << 0, 0 >>

\* ------------------------------------------------------- rw17_overflow.py
WR == 125

\* lines 20-22: payload, body and frame, built once before the loop; seed
\* stands for the bytes os.urandom returns
rw17_frame(seed) ==
  LET payload == RandBytes(seed, WR * 2)
      body == Concat(<< PackB(1), PackB(23), PackHbe(80), PackHbe(1), PackHbe(WR),
                        PackB(WR * 2), payload >>)
  IN Concat(<< body, rw17_crc(body) >>)

\* ---------------------------------------------------------------- variables
VARIABLES
  fn,      \* frame codec: the function under call
  args,    \* frame codec: its arguments
  ret,     \* frame codec: the returned bytes (StructError when it raised)
  called   \* frame codec: whether the call has returned

hvars == << fn, args, ret, called >>

VARIABLES
  SLAVE_ID,        \* responder: the slave address (opts.id)
  opts_fuzz,       \* responder: --fuzz N, 0 = never
  opts_fuzz_type,  \* responder: --fuzz-type, "none" when not given (rotate)
  rpc,             \* responder: position in the main loop
  rx,              \* responder: bytes on the line not yet read
  req,             \* responder: head + the bytes read for the current request
  poll,            \* responder: the transaction counter
  reply,           \* responder: the frame written and still on the line
  nwritten,        \* responder: number of ser.write calls so far
  nvalid,          \* responder: 8-byte requests read whose CRC is right
  faulted,         \* responder: the k for which the k-th reply was a fuzz frame
  script,          \* bus: how far the bursts sent follow poll, bad-CRC frame
  due              \* bus: replies owed once the burst sent last has been read:
                   \* one per valid request read before it or carried by it

rvars == << SLAVE_ID, opts_fuzz, opts_fuzz_type, rpc, rx, req, poll, reply,
            nwritten, nvalid, faulted, script, due >>

VARIABLES
  epc,        \* enumerator: position in the sweep loop
  sweep_reg,  \* enumerator: the loop variable reg
  srx,        \* enumerator: the receive stream not yet read (bytes, TIMEOUT marks)
  wire,       \* enumerator: the request frame last written
  nreq,       \* enumerator: number of requests written
  reported,   \* enumerator: the (address, value) pairs printed, in order
  last,       \* enumerator: what the last read_reply call read and returned
  slaveSent,  \* transport: (address, value) of the correct replies it produced
  onScript    \* transport: it answered 0x0051 correctly, all else with junk

evars == << epc, sweep_reg, srx, wire, nreq, reported, last, slaveSent, onScript >>

vars == << hvars, rvars, evars >>

\* --------------------------------------------------- rs485_fuzz.py: frames
POLL_REG == 81
POLL_CNT == 1
FUZZ_STYLES == << "crc", "func", "big", "rand" >>

\* mutant: the register value is packed little-endian
good_response_le(val) ==
  LET body == Concat(<< PackB(SLAVE_ID), PackB(3), PackB(2), PackHle(val) >>)
  IN Concat(<< body, crc(body) >>)

\* lines 47-51; val is random.randint(0, 0xFFFF)
good_response(val) ==
  LET body == Concat(<< PackB(SLAVE_ID), PackB(3), PackB(2), PackHbe(val) >>)
  IN Concat(<< body, crc(body) >>)

\* mutant: only the last byte is zeroed
fuzz_crc_last_byte(frame) == SubSeq(frame, 1, Len(frame) - 1) \o << 0 >>

\* lines 54-55: frame[:-2] + b"\x00\x00"
fuzz_crc(frame) == DropLast2(frame) \o << 0, 0 >>

fuzz_illegal_function ==
  LET body == Concat(<< PackB(SLAVE_ID), PackB(4), PackB(0), PackB(0) >>)
  IN Concat(<< body, crc(body) >>)

BIG == 252
\* fuzz_big_count() with the global SLAVE_ID = id
fuzz_big_count_as(id) ==
  LET body == Concat(<< PackB(id), PackB(3), PackB(BIG), PackHbe(0) >>)
      payload == SubSeq([i \in 1..256 |-> i - 1], 1, BIG)
  IN Concat(<< body, payload, crc(body \o payload) >>)

\* the frame is the same on every call: it is computed once per slave id
SlaveIds == {1, 5}
BigCountFrames == [id \in SlaveIds |-> fuzz_big_count_as(id)]
fuzz_big_count == BigCountFrames[SLAVE_ID]

\* n is random.randint(5, 50), seed the random bytes drawn
fuzz_random(n, seed) ==
  LET payload == RandBytes(seed, n)
      body == Concat(<< PackB(SLAVE_ID), payload >>)
  IN Concat(<< body, crc(body) >>)

FUZZ_MAP(style, frame, n, seed) ==
  CASE style = "crc" -> fuzz_crc(frame)
    [] style = "func" -> fuzz_illegal_function
    [] style = "big" -> fuzz_big_count
    [] style = "rand" -> fuzz_random(n, seed)

\* mutant: the function code is echoed without the exception bit
exception_reply_plain_func(func) ==
  LET exc == Concat(<< PackB(SLAVE_ID), PackB(func), PackB(2) >>)
  IN Concat(<< exc, crc(exc) >>)

\* the exception reply of main: id, func | 0x80, 0x02, CRC
exception_reply(func) ==
  LET exc == Concat(<< PackB(SLAVE_ID), PackB(BitOr(func, 128)), PackB(2) >>)
  IN Concat(<< exc, crc(exc) >>)

\* ------------------------------------------------- frame codec: the calls
ByteSamples == {0, 1, 81, 255}

RECURSIVE ByteStrings(_)
ByteStrings(n) ==
  IF n = 0 THEN {<< >>}
  ELSE LET shorter == ByteStrings(n - 1)
       IN shorter \cup {Append(s, b) : s \in {t \in shorter : Len(t) = n - 1}, b \in ByteSamples}

CodecInputs ==
  ByteStrings(MaxLen) \cup {<< 1, 3, 0, 0, 0, 1 >>, << 1, 3, 0, 81, 0, 1 >>,
                            << 49, 50, 51, 52, 53, 54, 55, 56, 57 >>}

\* bodies of the frames handed to fuzz_crc; 01 03 bf62 0001 is the read request
\* whose CRC16 is 0x0000
FuzzCrcBodies == CodecInputs \cup {<< 1, 3, 191, 98, 0, 1 >>}

Slaves == {1, 247}
Regs == {80, 81, 65535}
Qtys == {1, 125, 128}
Claims == {1, 2, 127, 250}
Actuals == 0..MaxActual \cup {600}
\* random.randint(0, 0xFFFF) of build_badcrc; with 0x2025 the body
\* 01 06 0051 2025 has the CRC16 0x0000
BadcrcValues == Values \cup {8229}

NoArgs == [data |-> << >>, slave |-> 0, reg |-> 0, qty |-> 0, claim |-> 0,
           actual |-> 0, value |-> 0, seed |-> 0]

ArgsOf(f) ==
  CASE f = "append_crc" -> {[NoArgs EXCEPT !.data = d] : d \in CodecInputs}
    [] f = "build_write16" ->
         {[NoArgs EXCEPT !.slave = s, !.reg = r, !.value = v] :
            s \in Slaves, r \in Regs, v \in Values}
    [] f = "build_badcrc" ->
         {[NoArgs EXCEPT !.slave = s, !.reg = r, !.value = v] :
            s \in Slaves, r \in Regs, v \in BadcrcValues}
    [] f = "rw17_overflow" -> {[NoArgs EXCEPT !.seed = sd] : sd \in Seeds}
    [] f = "fuzz_crc" ->
         {[NoArgs EXCEPT !.data = Concat(<< b, le_crc(b) >>)] : b \in FuzzCrcBodies}
    [] f = "build_wide" ->
         {[NoArgs EXCEPT !.slave = s, !.reg = r, !.qty = q, !.seed = sd] :
            s \in Slaves, r \in Regs, q \in Qtys, sd \in Seeds}
    [] f = "build_huge" ->
         {[NoArgs EXCEPT !.slave = s, !.reg = r, !.claim = c, !.actual = a, !.seed = sd] :
            s \in Slaves, r \in Regs, c \in Claims, a \in Actuals, sd \in Seeds}

Functions == {"append_crc", "build_write16", "build_badcrc", "build_wide", "build_huge",
              "fuzz_crc", "rw17_overflow"}

\* appendCrc: b + le_crc(b)
CallAppendCrc ==
  /\ fn = "append_crc" /\ ~called
  /\ ret' = Concat(<< args.data, le_crc(args.data) >>)
  /\ called' = TRUE
  /\ UNCHANGED << fn, args, rvars, evars >>

CallBuildWrite16 ==
  /\ fn = "build_write16" /\ ~called
  /\ ret' = build_write16(args.slave, args.reg, args.value)
  /\ called' = TRUE
  /\ UNCHANGED << fn, args, rvars, evars >>

CallBuildBadcrc ==
  /\ fn = "build_badcrc" /\ ~called
  /\ ret' = build_badcrc(args.slave, args.reg, args.value)
  /\ called' = TRUE
  /\ UNCHANGED << fn, args, rvars, evars >>

CallBuildWide ==
  /\ fn = "build_wide" /\ ~called
  /\ ret' = build_wide(args.slave, args.reg, args.qty, args.seed)
  /\ called' = TRUE
  /\ UNCHANGED << fn, args, rvars, evars >>

CallBuildHuge ==
  /\ fn = "build_huge" /\ ~called
  /\ ret' = build_huge(args.slave, args.reg, args.claim, args.actual, args.seed)
  /\ called' = TRUE
  /\ UNCHANGED << fn, args, rvars, evars >>

\* fuzz_crc(frame) on a frame with a correct CRC
CallFuzzCrc ==
  /\ fn = "fuzz_crc" /\ ~called
  /\ ret' = fuzz_crc(args.data)
  /\ called' = TRUE
  /\ UNCHANGED << fn, args, rvars, evars >>

\* rw17_overflow.py lines 24-27: every iteration of the loop writes the frame
\* built before the loop
Rw17Send ==
  /\ fn = "rw17_overflow"
  /\ ret' = rw17_frame(args.seed)
  /\ called' = TRUE
  /\ UNCHANGED << fn, args, rvars, evars >>

NextCodec ==
  \/ Rw17Send
  \/ CallFuzzCrc
  \/ CallAppendCrc
  \/ CallBuildWrite16
  \/ CallBuildBadcrc
  \/ CallBuildWide
  \/ CallBuildHuge

\* ------------------------------------------------------- the bus (responder)
\* a request frame as a master builds it (reg_map_sweep.py builds 01 03 reg 00 01)
MasterRequest(sid, func, reg, cnt) ==
  LET req_body == Concat(<< PackB(sid), PackB(func), PackHbe(reg), PackHbe(cnt) >>)
  IN Concat(<< req_body, le_crc(req_body) >>)

\* what the line can carry in one burst (a burst is contiguous: no read times
\* out inside it), for the slave address sid
BurstFor(sid, name) ==
  CASE name = "poll" -> MasterRequest(sid, 3, POLL_REG, POLL_CNT)
    [] name = "other_reg" -> MasterRequest(sid, 3, POLL_REG + 1, POLL_CNT)
    [] name = "other_func" -> MasterRequest(sid, 6, POLL_REG, POLL_CNT)
    [] name = "other_cnt" -> MasterRequest(sid, 3, POLL_REG, POLL_CNT + 1)
    [] name = "badcrc" ->
         DropLast2(MasterRequest(sid, 3, POLL_REG, POLL_CNT)) \o << 0, 0 >>
    [] name = "short" -> SubSeq(MasterRequest(sid, 3, POLL_REG, POLL_CNT), 1, 4)
    [] name = "foreign" -> MasterRequest(sid + 1, 3, sid, 2)
    [] name = "foreign_poll" ->
         MasterRequest(sid + 1, 3, sid, 2)
           \o MasterRequest(sid, 3, POLL_REG, POLL_CNT)
    [] name = "noise_poll" ->
         << sid >> \o MasterRequest(sid, 3, POLL_REG, POLL_CNT)

BurstNames == {"poll", "other_reg", "other_func", "other_cnt", "badcrc", "short",
               "foreign", "foreign_poll", "noise_poll"}

\* the bursts, computed once per slave address
Bursts == [sid \in SlaveIds |-> [name \in BurstNames |-> BurstFor(sid, name)]]
Burst(name) == Bursts[SLAVE_ID][name]

\* how far the bursts sent so far follow the script poll, bad-CRC frame:
\* 0 nothing sent, 1 the poll, 2 the poll and the bad-CRC frame, 3 off script
ScriptAfter(pos, name) ==
  IF pos = 0 /\ name = "poll" THEN 1
  ELSE IF pos = 1 /\ name = "badcrc" THEN 2
  ELSE 3

\* the CRC check of a receiver other than the responder
IsValidFrame(f) == Len(f) >= 2 /\ le_crc(DropLast2(f)) = Last2(f)

\* the complete requests for the slave sid that a burst carries: the places
\* where 8 bytes start with sid and end with their CRC
RequestsIn(sid, burst) ==
  {i \in 1..(Len(burst) - 7) :
     burst[i] = sid /\ IsValidFrame(SubSeq(burst, i, i + 7))}

\* their number, computed once per slave address and burst
RequestCount ==
  [sid \in SlaveIds |->
     [name \in BurstNames |-> Cardinality(RequestsIn(sid, Bursts[sid][name]))]]

NoReply == [kind |-> "none", style |-> "none", frame |-> << >>]

\* ------------------------------------------------ rs485_fuzz.py: main loop
FuzzTypes == {"none", "crc", "func", "big", "rand"}
RandLens == {5, 50}
RespSeeds == {85}
\* random.randint(0, 0xFFFF); 0x1234 tells the byte orders apart
RespValues == {4660, 65535}

\* the line delivers the next burst once the previous one has been read; the
\* master has taken the previous reply off the line by then
BusSend(name) ==
  /\ rpc \notin {"off", "stopped"}
  /\ rx = << >>
  /\ poll < MaxPolls
  /\ rx' = Burst(name)
  /\ reply' = NoReply
  /\ script' = ScriptAfter(script, name)
  /\ due' = nvalid + RequestCount[SLAVE_ID][name]
  /\ UNCHANGED << hvars, evars, SLAVE_ID, opts_fuzz, opts_fuzz_type, rpc, req, poll,
                  nwritten, nvalid, faulted >>

\* mutant: a read that times out is padded with zero bytes to n bytes
SerRead_padded(buf, n) ==
  SubSeq(buf, 1, Min(n, Len(buf))) \o [i \in 1..(n - Min(n, Len(buf))) |-> 0]

\* ser.read(n) with a timeout: the bytes returned and the bytes left
SerRead(buf, n) == SubSeq(buf, 1, Min(n, Len(buf)))
SerRest(buf, n) == SubSeq(buf, Min(n, Len(buf)) + 1, Len(buf))

\* lines 112-113: head = ser.read(1); anything but our address is skipped
WaitAddress ==
  /\ rpc = "WAIT_ADDRESS"
  /\ LET head == SerRead(rx, 1)
     IN /\ rx' = SerRest(rx, 1)
        /\ IF head # << SLAVE_ID >>
           THEN UNCHANGED << rpc, req >>
           ELSE /\ rpc' = "READ_REQUEST"
                /\ req' = head
  /\ UNCHANGED << hvars, evars, SLAVE_ID, opts_fuzz, opts_fuzz_type, poll, reply, nwritten,
                  nvalid, faulted, script, due >>

\* lines 115-117: req = head + ser.read(7); a short read drops the request
ReadRequest ==
  /\ rpc = "READ_REQUEST"
  /\ LET full == req \o SerRead(rx, 7)
     IN /\ rx' = SerRest(rx, 7)
        /\ req' = full
        /\ rpc' = IF Len(full) < 8 THEN "WAIT_ADDRESS" ELSE "VALIDATE"
        /\ nvalid' = IF Len(full) = 8 /\ IsValidFrame(full) THEN nvalid + 1 ELSE nvalid
  /\ UNCHANGED << hvars, evars, SLAVE_ID, opts_fuzz, opts_fuzz_type, poll, reply, nwritten,
                  faulted, script, due >>

\* mutant: the request CRC is not checked
CrcMismatch_unchecked(r) == FALSE

\* line 120: crc(req[:-2]) != req[-2:]
CrcMismatch(r) == crc(DropLast2(r)) # Last2(r)

\* lines 120-122: a request with a bad CRC is dropped without a reply
Validate ==
  /\ rpc = "VALIDATE"
  /\ rpc' = IF CrcMismatch(req) THEN "WAIT_ADDRESS" ELSE "RESPOND"
  /\ UNCHANGED << hvars, evars, SLAVE_ID, opts_fuzz, opts_fuzz_type, rx, req, poll, reply,
                  nwritten, nvalid, faulted, script, due >>

\* mutant: the counter is incremented before the schedule is consulted
FuzzDue_after_increment(p, n) == n # 0 /\ (p + 1) % n = 0

\* mutant: a configured style switches fault injection on by itself
FuzzDue_when_style_set(p, n) == (n # 0 /\ p % n = 0) \/ opts_fuzz_type # "none"

\* line 127: opts.fuzz and poll % opts.fuzz == 0
FuzzDue(p, n) == n # 0 /\ p % n = 0

\* mutant: the style is indexed by the counter itself, not by poll // N
FuzzStyle_by_poll(p, n, type) ==
  IF type # "none" THEN type ELSE FUZZ_STYLES[(p % 4) + 1]

\* line 128: opts.fuzz_type or fuzz_cycle[(poll // opts.fuzz) % 4]
FuzzStyle(p, n, type) ==
  IF type # "none" THEN type ELSE FUZZ_STYLES[((p \div n) % 4) + 1]

\* ser.write(frame) and the bookkeeping of what was written
Write(kind, style, frame) ==
  /\ reply' = [kind |-> kind, style |-> style, frame |-> frame]
  /\ nwritten' = nwritten + 1

\* lines 124-145: fuzz frame, normal reply or exception reply; poll += 1
Respond ==
  /\ rpc = "RESPOND"
  /\ LET func == req[2]
         reg == UnpackHbe(SubSeq(req, 3, 4))
         cnt == UnpackHbe(SubSeq(req, 5, 6))
     IN IF FuzzDue(poll, opts_fuzz)
        THEN /\ \E n \in RandLens, seed \in RespSeeds :
                  LET style == FuzzStyle(poll, opts_fuzz, opts_fuzz_type)
                  IN Write("fuzz", style, FUZZ_MAP(style, req, n, seed))
             /\ faulted' = faulted \cup {nwritten + 1}
        ELSE /\ IF func = 3 /\ reg = POLL_REG /\ cnt = POLL_CNT
                THEN \E val \in RespValues : Write("ok", "none", good_response(val))
                ELSE Write("exc", "none", exception_reply(func))
             /\ UNCHANGED faulted
  /\ poll' = poll + 1
  /\ rpc' = "WAIT_ADDRESS"
  /\ UNCHANGED << hvars, evars, SLAVE_ID, opts_fuzz, opts_fuzz_type, rx, req, nvalid, script, due >>

NextResponder ==
  \/ \E name \in BurstNames : BusSend(name)
  \/ WaitAddress
  \/ ReadRequest
  \/ Validate
  \/ Respond

\* lines 147-151: Ctrl-C raises KeyboardInterrupt in main wherever it is; the
\* handler around main() prints and the process ends
Interrupt ==
  /\ rpc \notin {"off", "stopped"}
  /\ rpc' = "stopped"
  /\ UNCHANGED << hvars, evars, SLAVE_ID, opts_fuzz, opts_fuzz_type, rx, req, poll, reply,
                  nwritten, nvalid, faulted, script, due >>

NextCancel ==
  \/ NextResponder
  \/ Interrupt

\* ----------------------------------------------------- reg_map_sweep.py
\* a silence on the line longer than the read timeout (timeout=0.05)
TIMEOUT == -1

RECURSIVE Available(_, _)
\* how many of the first n elements of buf arrive before a timeout
Available(buf, n) ==
  IF n = 0 \/ buf = << >> \/ Head(buf) = TIMEOUT THEN 0
  ELSE 1 + Available(Tail(buf), n - 1)

\* ser.read(n): the bytes returned, and the stream left; a read that times out
\* has waited through the silence that stopped it
ReadBytes(buf, n) == SubSeq(buf, 1, Available(buf, n))
ReadRest(buf, n) ==
  LET k == Available(buf, n)
  IN IF k = n THEN SubSeq(buf, k + 1, Len(buf)) ELSE SubSeq(buf, k + 2, Len(buf))

\* None, and any falsy bytes value
None == << >>

\* mutant: the slave id of the reply is not compared
read_reply_any_sid(expected_reg, buf) ==
  LET hdr == ReadBytes(buf, 3)
      rest1 == ReadRest(buf, 3)
  IN IF Len(hdr) < 3
     THEN [data |-> None, hdr |-> hdr, payload |-> << >>, rest |-> rest1]
     ELSE LET sid == hdr[1]
              func == hdr[2]
              bc == hdr[3]
              payload == ReadBytes(rest1, bc + 2)
              frame == hdr \o payload
              out == [data |-> None, hdr |-> hdr, payload |-> payload,
                      rest |-> ReadRest(rest1, bc + 2)]
          IN IF Len(payload) # bc + 2 THEN out
             ELSE IF sweep_le_crc(DropLast2(frame)) # Last2(frame) THEN out
             ELSE IF func # 3 \/ bc # 2 THEN out
             ELSE [out EXCEPT !.data = SubSeq(frame, 4, Len(frame) - 2)]

\* read_reply(expected_reg) on the receive stream buf: the data returned, the
\* header and payload bytes read, and the stream left
read_reply(expected_reg, buf) ==
  LET hdr == ReadBytes(buf, 3)
      rest1 == ReadRest(buf, 3)
  IN IF Len(hdr) < 3
     THEN [data |-> None, hdr |-> hdr, payload |-> << >>, rest |-> rest1]
     ELSE LET sid == hdr[1]
              func == hdr[2]
              bc == hdr[3]
              payload == ReadBytes(rest1, bc + 2)
              frame == hdr \o payload
              out == [data |-> None, hdr |-> hdr, payload |-> payload,
                      rest |-> ReadRest(rest1, bc + 2)]
          IN IF Len(payload) # bc + 2 THEN out
             ELSE IF sweep_le_crc(DropLast2(frame)) # Last2(frame) THEN out
             ELSE IF sid # 1 \/ func # 3 \/ bc # 2 THEN out
             ELSE [out EXCEPT !.data = SubSeq(frame, 4, Len(frame) - 2)]

\* range(0x0000, 0x10000), cut down to SweepLen registers around POLL_REG
SweepFirst == POLL_REG - 1
SweepEnd == SweepFirst + SweepLen

\* line 51: range(0x0000, 0x10000) ends before 0x10000
RANGE_END == 65536

\* besides the registers around POLL_REG the sweep is followed over the first
\* RangeLen registers of the range and over the last
RangeStarts == {0, RANGE_END - RangeLen}

\* mutant: the loop ends one register early
SweepStop_one_early(r) ==
  (IF r < RangeLen THEN RangeLen ELSE IF r < SweepEnd THEN SweepEnd ELSE RANGE_END) - 1

\* where the stretch holding register r ends; the last one ends with the range
SweepStop(r) ==
  IF r < RangeLen THEN RangeLen ELSE IF r < SweepEnd THEN SweepEnd ELSE RANGE_END

\* ------------------------------------------------- the transport (enumerator)
\* the slave's reply to a read of one register holding val, with id and func
SlaveReply(sid, func, val) ==
  LET body == Concat(<< PackB(sid), PackB(func), PackB(2), PackHbe(val) >>)
  IN Concat(<< body, le_crc(body) >>)

Junk7 == << 9, 9, 2, 9, 9, 9, 9 >>

\* what the transport can put on the line after a request
Answer(kind, val) ==
  CASE kind = "correct" -> SlaveReply(1, 3, val)
    [] kind = "late" -> << TIMEOUT >> \o SlaveReply(1, 3, val)
    [] kind = "silent" -> << >>
    [] kind = "truncated" -> SubSeq(SlaveReply(1, 3, val), 1, 4)
    [] kind = "badcrc" -> DropLast2(SlaveReply(1, 3, val)) \o << 0, 0 >>
    [] kind = "wrong_id" -> SlaveReply(2, 3, val)
    [] kind = "wrong_func" -> SlaveReply(1, 4, val)
    [] kind = "wrong_bc" -> Concat(<< << 1, 3, 0 >>, le_crc(<< 1, 3, 0 >>) >>)
    [] kind = "junk7" -> Junk7
    [] kind = "junk14" -> Junk7 \o Junk7

AnswerKinds == {"correct", "late", "silent", "truncated", "badcrc", "wrong_id",
                "wrong_func", "wrong_bc", "junk7", "junk14"}
JunkKinds == {"truncated", "junk7", "junk14"}
RegValues == {7, 4660}

NoRead == [reg |-> -1, hdr |-> << >>, payload |-> << >>, data |-> None]

\* lines 52-54: build 01 03 reg 00 01 CRC, write it, sleep 10 ms
SweepSend ==
  /\ epc = "send"
  /\ LET req_body == Concat(<< PackB(1), PackB(3), PackHbe(sweep_reg), PackHbe(1) >>)
     IN wire' = Concat(<< req_body, sweep_le_crc(req_body) >>)
  /\ nreq' = nreq + 1
  /\ epc' = "await"
  /\ UNCHANGED << hvars, rvars, sweep_reg, srx, reported, last, slaveSent, onScript >>

\* the line after the request: what arrives, and when, until the next request
TransportAnswer(kind, val) ==
  /\ epc = "await"
  /\ srx' = srx \o Answer(kind, val)
  /\ slaveSent' = IF kind \in {"correct", "late"}
                  THEN slaveSent \cup {<< sweep_reg, val >>} ELSE slaveSent
  /\ onScript' = (onScript /\ IF sweep_reg = POLL_REG THEN kind = "correct"
                                               ELSE kind \in JunkKinds)
  /\ epc' = "read"
  /\ UNCHANGED << hvars, rvars, sweep_reg, wire, nreq, reported, last >>

\* lines 55-58 and the loop step: read_reply, print the pair, next register
SweepRead ==
  /\ epc = "read"
  /\ LET r == read_reply(sweep_reg, srx)
     IN /\ srx' = r.rest
        /\ last' = [reg |-> sweep_reg, hdr |-> r.hdr, payload |-> r.payload, data |-> r.data]
        /\ reported' = IF r.data # None
                       THEN Append(reported, << sweep_reg, UnpackHbe(r.data) >>)
                       ELSE reported
  /\ sweep_reg' = sweep_reg + 1
  /\ epc' = IF sweep_reg + 1 < SweepStop(sweep_reg) THEN "send" ELSE "done"
  /\ UNCHANGED << hvars, rvars, wire, nreq, slaveSent, onScript >>

NextSweep ==
  \/ SweepSend
  \/ \E kind \in AnswerKinds, val \in RegValues : TransportAnswer(kind, val)
  \/ SweepRead

\* ------------------------------------------------------------ specifications
\* the codec harness alone: the calls, the responder and the enumerator off
InitCodec ==
  /\ fn \in Functions
  /\ args \in ArgsOf(fn)
  /\ ret = << >>
  /\ called = FALSE
  /\ SLAVE_ID = 1 /\ opts_fuzz = 0 /\ opts_fuzz_type = "none"
  /\ rpc = "off" /\ rx = << >> /\ req = << >> /\ poll = 0 /\ reply = NoReply
  /\ nwritten = 0 /\ nvalid = 0 /\ faulted = {} /\ script = 0 /\ due = 0
  /\ epc = "off" /\ sweep_reg = SweepFirst /\ srx = << >> /\ wire = << >> /\ nreq = 0
  /\ reported = << >> /\ last = NoRead /\ slaveSent = {} /\ onScript = TRUE

\* the responder alone, on a line that carries bursts
InitResponder ==
  /\ SLAVE_ID \in SlaveIds
  /\ opts_fuzz \in 0..MaxFuzzN
  /\ opts_fuzz_type \in FuzzTypes
  /\ rpc = "WAIT_ADDRESS"
  /\ rx = << >>
  /\ req = << >>
  /\ poll = 0
  /\ reply = NoReply
  /\ nwritten = 0 /\ nvalid = 0
  /\ faulted = {}
  /\ script = 0
  /\ due = 0
  /\ fn = "none" /\ args = NoArgs /\ ret = << >> /\ called = FALSE
  /\ epc = "off" /\ sweep_reg = SweepFirst /\ srx = << >> /\ wire = << >> /\ nreq = 0
  /\ reported = << >> /\ last = NoRead /\ slaveSent = {} /\ onScript = TRUE

\* the enumerator alone, against the transport
InitSweep ==
  /\ epc = "send"
  /\ sweep_reg = SweepFirst
  /\ srx = << >>
  /\ wire = << >>
  /\ nreq = 0
  /\ reported = << >>
  /\ last = NoRead
  /\ slaveSent = {}
  /\ onScript = TRUE
  /\ fn = "none" /\ args = NoArgs /\ ret = << >> /\ called = FALSE
  /\ SLAVE_ID = 1 /\ opts_fuzz = 0 /\ opts_fuzz_type = "none"
  /\ rpc = "off" /\ rx = << >> /\ req = << >> /\ poll = 0 /\ reply = NoReply
  /\ nwritten = 0 /\ nvalid = 0 /\ faulted = {} /\ script = 0 /\ due = 0

SpecCodec == InitCodec /\ [][NextCodec]_vars

SpecResponder == InitResponder /\ [][NextResponder]_vars

SpecSweep == InitSweep /\ [][NextSweep]_vars

\* the enumerator at the start of its range, or RangeLen registers before the
\* end with nothing received so far
InitRange ==
  /\ epc = "send"
  /\ sweep_reg \in RangeStarts
  /\ srx = << >>
  /\ wire = << >>
  /\ nreq = 0
  /\ reported = << >>
  /\ last = NoRead
  /\ slaveSent = {}
  /\ onScript = TRUE
  /\ fn = "none" /\ args = NoArgs /\ ret = << >> /\ called = FALSE
  /\ SLAVE_ID = 1 /\ opts_fuzz = 0 /\ opts_fuzz_type = "none"
  /\ rpc = "off" /\ rx = << >> /\ req = << >> /\ poll = 0 /\ reply = NoReply
  /\ nwritten = 0 /\ nvalid = 0 /\ faulted = {} /\ script = 0 /\ due = 0

\* the script moves on: the write returns, the sleep ends and every read comes
\* back at its timeout at the latest (timeout=0.05). Each step of NextSweep
\* changes epc, and one is possible wherever epc is not "done" (SweepSend and
\* TransportAnswer have no other guard, SweepRead needs read_reply to return)
SweepStep ==
  /\ epc \in {"send", "await", "read"}
  /\ epc' \in {"send", "await", "read", "done"} \ {epc}

SpecRange == InitRange /\ [][NextSweep]_vars /\ WF_epc(SweepStep)

\* the responder and a Ctrl-C at any moment
SpecCancel == InitResponder /\ [][NextCancel]_vars

\* =================================================================== claims
\* ---------------------------------------------------------- frame codec

\* C11: for every valid frame f (at least 2 bytes, CRC correct), fuzz_crc(f), and
\* build_badcrc on the frame f it has just built with build_write16, return a
\* frame as long as f that ends in 00 00 and equals f in all but the last two
\* bytes.
C11_CrcZeroed ==
  LET Zeroed(f, out) ==
        /\ Len(out) = Len(f)
        /\ Last2(out) = << 0, 0 >>
        /\ \A i \in 1..(Len(f) - 2) : out[i] = f[i]
  IN /\ (fn = "fuzz_crc" /\ called /\ IsValidFrame(args.data))
          => Zeroed(args.data, ret)
     /\ (fn = "build_badcrc" /\ called)
          => /\ IsValidFrame(build_write16(args.slave, args.reg, args.value))
             /\ Zeroed(build_write16(args.slave, args.reg, args.value), ret)

C11_Witness ==
  /\ fn = "fuzz_crc" /\ called
  /\ args.data = << 1, 3, 0, 81, 0, 1, 213, 219 >>
  /\ IsValidFrame(args.data)
  /\ ret = << 1, 3, 0, 81, 0, 1, 0, 0 >>

\* C6: appending le_crc(b) to any byte string b (the empty one included) gives a
\* frame that passes the receivers' CRC check le_crc(f[:-2]) == f[-2:], as the
\* responder (crc) and the enumerator (sweep_le_crc) evaluate it.
C6_RoundTrip ==
  (fn = "append_crc" /\ called) =>
    /\ Len(ret) = Len(args.data) + 2
    /\ crc(DropLast2(ret)) = Last2(ret)
    /\ sweep_le_crc(DropLast2(ret)) = Last2(ret)

C6_Witness ==
  /\ fn = "append_crc" /\ called
  /\ args.data = << >>
  /\ ret = << 255, 255 >>

\* C7: crc16 is the Modbus CRC16: its result is in 0..0xFFFF, it is 0x0A84 on
\* 01 03 00 00 00 01 (and 0xFFFF on the empty string, 0x4B37 on "123456789"),
\* and every copy of the routine in the repository agrees with it.
C7_Crc16 ==
  (fn = "append_crc") =>
    /\ crc16(args.data) \in 0..65535
    /\ crc(args.data) = PackHle(crc16(args.data))
    /\ sweep_crc16(args.data) = crc16(args.data)
    /\ rw17_crc(args.data) = PackHle(crc16(args.data))
    /\ bcast_crc(args.data) = PackHle(crc16(args.data))
    /\ crc16(<< 1, 3, 0, 0, 0, 1 >>) = 2692
    /\ crc16(<< >>) = 65535
    /\ crc16(<< 49, 50, 51, 52, 53, 54, 55, 56, 57 >>) = 19255

C7_Witness ==
  /\ fn = "append_crc" /\ called
  /\ args.data = << 1, 3, 0, 0, 0, 1 >>
  /\ ret = << 1, 3, 0, 0, 0, 1, 132, 10 >>

\* C8 (as claimed): build_huge(1, 0x51, 250, 600) returns a frame whose byte
\* count field (7th byte) is 0xFA and whose data section is 600 bytes long.
C8_HugeDefaultFrame ==
  (/\ fn = "build_huge" /\ called
   /\ args.slave = 1 /\ args.reg = 81 /\ args.claim = 250 /\ args.actual = 600) =>
    /\ ret # StructError
    /\ Len(ret) = 7 + 600 + 2
    /\ ret[7] = 250
    /\ ret[7] < Len(ret) - 9

\* C9 (as claimed): the CRC of every frame build_huge returns covers only the
\* 7-byte header and the declared number (byte count field) of data bytes.
C9_CrcOverDeclared ==
  (fn = "build_huge" /\ called /\ ret # StructError) =>
    Last2(ret) = le_crc(SubSeq(ret, 1, Min(Len(ret) - 2, 7 + ret[7])))

\* C9 (amended): the CRC of every frame build_huge returns is the CRC16 of all
\* the bytes before it: the 7-byte header and the actual_bytes payload bytes.
C9_CrcOverAll ==
  (fn = "build_huge" /\ called /\ ret # StructError) =>
    /\ Len(ret) = 7 + args.actual + 2
    /\ ret[7] = args.claim * 2
    /\ Last2(ret) = le_crc(SubSeq(ret, 1, 7 + args.actual))

C9_Witness ==
  /\ fn = "build_huge" /\ called /\ ret # StructError
  /\ args.claim = 1 /\ args.actual = 4
  /\ Last2(ret) # le_crc(SubSeq(ret, 1, 9))

\* C10: build_wide(1, 0x51) is 259 bytes: 01 10 0051 007D FA, 250 data bytes,
\* CRC16 little-endian over all of them; byteCount = qty*2 = the data length.
C10_WideDefault ==
  (/\ fn = "build_wide" /\ called
   /\ args.slave = 1 /\ args.reg = 81 /\ args.qty = 125) =>
    /\ Len(ret) = 259
    /\ SubSeq(ret, 1, 7) = << 1, 16, 0, 81, 0, 125, 250 >>
    /\ SubSeq(ret, 8, 257) = RandBytes(args.seed, 250)
    /\ Last2(ret) = le_crc(SubSeq(ret, 1, 257))
    /\ ret[7] = 2 * args.qty
    /\ ret[7] = Len(ret) - 9

C10_Witness ==
  /\ fn = "build_wide" /\ called
  /\ args.slave = 1 /\ args.reg = 81 /\ args.qty = 125 /\ args.seed = 85
  /\ Len(ret) = 259 /\ ret[7] = 250

\* C20 (as claimed): a frame with the zeroed CRC never passes the CRC check:
\* for every slave, register and value of build_badcrc, and every CRC-valid
\* 8-byte request given to fuzz_crc, the frame f returned has
\* le_crc(f[:-2]) # f[-2:].
C20_CorruptNeverValid ==
  (/\ called
   /\ \/ fn = "build_badcrc"
      \/ fn = "fuzz_crc" /\ Len(args.data) = 8 /\ IsValidFrame(args.data))
    => le_crc(DropLast2(ret)) # Last2(ret)

\* C15 (as claimed): the frame rw17_overflow sends is id, 0x17, readStart (u16),
\* readQty (u16) = 1, writeStart (u16), writeQty (u16) = 125, writeByteCount = 250,
\* 250 data bytes, CRC16 little-endian, multi-byte fields big-endian, and every
\* iteration sends the same frame.
C15_Rw17Layout ==
  [][(fn = "rw17_overflow" /\ called')
       => /\ Len(ret') = 2 + 8 + 1 + 250 + 2
          /\ SubSeq(ret', 1, 2) = << 1, 23 >>
          /\ SubSeq(ret', 5, 6) = << 0, 1 >>
          /\ SubSeq(ret', 9, 10) = << 0, 125 >>
          /\ ret'[11] = 250
          /\ IsValidFrame(ret')
          /\ called => ret' = ret]_vars

\* ------------------------------------------------------------- responder

\* C1: the responder writes exactly one frame for each 8-byte request it reads
\* that starts with its address and carries the right CRC, and none for one
\* with a wrong CRC; the stream poll(0x03, 0x0051, 1), bad-CRC frame gets one
\* reply in total (one after the poll, none after the bad frame).
C1_OneReplyPerValidRequest ==
  /\ rpc \in {"VALIDATE", "RESPOND"} =>
       nwritten = nvalid - (IF IsValidFrame(req) THEN 1 ELSE 0)
  /\ rpc = "RESPOND" => IsValidFrame(req)
  /\ rpc \in {"WAIT_ADDRESS", "READ_REQUEST"} => nwritten = nvalid
  /\ (script \in {1, 2} /\ rx = << >> /\ rpc = "WAIT_ADDRESS") => nwritten = 1

C1_Witness ==
  /\ script = 2 /\ rx = << >> /\ rpc = "WAIT_ADDRESS"
  /\ Len(req) = 8 /\ ~IsValidFrame(req)
  /\ nvalid = 1 /\ nwritten = 1

\* C2 (as claimed): with fault interval N > 0 the k-th valid request, counted
\* from 1, gets a fuzz frame iff k mod N = 0; N = 3 and 9 polls: 3rd, 6th, 9th.
C2_FaultOnMultiples ==
  opts_fuzz > 0 =>
    /\ \A k \in 1..nwritten : (k \in faulted) <=> (k % opts_fuzz = 0)
    /\ (opts_fuzz = 3 /\ nwritten = 9) => faulted = {3, 6, 9}

\* C2 (amended): with fault interval N > 0 the k-th valid request, counted
\* from 1, gets a fuzz frame iff (k - 1) mod N = 0: the first request is
\* faulted, then every N-th after it; N = 3 and 9 polls: 1st, 4th, 7th.
C2_FaultOnFirstThenEveryNth ==
  opts_fuzz > 0 =>
    /\ \A k \in 1..nwritten : (k \in faulted) <=> ((k - 1) % opts_fuzz = 0)
    /\ (opts_fuzz = 3 /\ nwritten = 9) => faulted = {1, 4, 7}

C2_Witness ==
  /\ opts_fuzz = 3 /\ nwritten = 9 /\ poll = 9
  /\ faulted = {1, 4, 7}
  /\ reply.kind \in {"ok", "exc"}

\* C12 (as claimed): every CRC-valid request to the slave whose (function,
\* register, quantity) is not (0x03, 0x0051, 1) is answered with the exception
\* reply id, function | 0x80, 0x02, CRC16 little-endian.
C12_MismatchGetsException ==
  LET func == req[2]
      reg == UnpackHbe(SubSeq(req, 3, 4))
      cnt == UnpackHbe(SubSeq(req, 5, 6))
      exc == << req[1], BitOr(func, 128), 2 >>
  IN (/\ rpc = "WAIT_ADDRESS" /\ reply.kind # "none"
      /\ Len(req) = 8 /\ IsValidFrame(req)
      /\ << func, reg, cnt >> # << 3, 81, 1 >>)
       => reply.frame = exc \o le_crc(exc)

\* C12 (amended): every CRC-valid request to the slave whose (function,
\* register, quantity) is not (0x03, 0x0051, 1), and whose transaction is not
\* selected for fault injection (N = 0, or the counter of replies written
\* before it is not a multiple of N), is answered with the exception reply
\* id, function | 0x80, 0x02, CRC16 little-endian; a selected one is answered
\* with the fuzz frame instead.
C12_MismatchGetsExceptionUnlessFaulted ==
  [][LET func == req[2]
         reg == UnpackHbe(SubSeq(req, 3, 4))
         cnt == UnpackHbe(SubSeq(req, 5, 6))
         exc == << req[1], BitOr(func, 128), 2 >>
         selected == opts_fuzz # 0 /\ poll % opts_fuzz = 0
     IN (rpc = "RESPOND" /\ rpc' # rpc /\ << func, reg, cnt >> # << 3, 81, 1 >>)
          => /\ req[1] = SLAVE_ID /\ IsValidFrame(req)
             /\ nwritten' = nwritten + 1
             /\ ~selected => reply'.frame = exc \o le_crc(exc)
             /\ selected => reply'.kind = "fuzz"]_vars

C12_Witness ==
  /\ SLAVE_ID = 1 /\ opts_fuzz = 2 /\ poll = 2
  /\ rpc = "WAIT_ADDRESS"
  /\ req = << 1, 6, 0, 81, 0, 1, 25, 219 >>
  /\ reply.frame = << 1, 134, 2, 195, 161 >>

\* C13: a CRC-valid request for (0x03, 0x0051, 1) whose transaction is not
\* selected for fault injection is answered with exactly the 7 bytes id, 0x03,
\* 0x02, value (u16 big-endian, the value drawn from 0..0xFFFF), CRC16
\* little-endian, with id the configured slave id and the CRC correct.
C13_NormalReply ==
  [][LET func == req[2]
         reg == UnpackHbe(SubSeq(req, 3, 4))
         cnt == UnpackHbe(SubSeq(req, 5, 6))
         selected == opts_fuzz # 0 /\ poll % opts_fuzz = 0
     IN (/\ rpc = "RESPOND" /\ rpc' # rpc
         /\ << func, reg, cnt >> = << 3, 81, 1 >>
         /\ ~selected)
          => /\ IsValidFrame(req)
             /\ nwritten' = nwritten + 1
             /\ Len(reply'.frame) = 7
             /\ \E val \in RespValues :
                  SubSeq(reply'.frame, 1, 5)
                    = << SLAVE_ID, 3, 2, val \div 256, val % 256 >>
             /\ IsValidFrame(reply'.frame)]_vars

C13_Witness ==
  /\ SLAVE_ID = 5 /\ opts_fuzz = 3 /\ poll = 3
  /\ rpc = "WAIT_ADDRESS"
  /\ req = Bursts[5]["poll"]
  /\ SubSeq(reply.frame, 1, 5) = << 5, 3, 2, 18, 52 >>
  /\ Len(reply.frame) = 7

\* C14: for every fault interval N > 0, with a fixed style configured every
\* fault-injected reply has that style; with none configured the k-th
\* fault-injected reply (k from 1) has the style number ((k - 1) mod 4) of crc,
\* func, big, rand: crc first, crc again for the fifth, whatever frames were
\* dropped in between.
C14_StyleOrder ==
  LET k == Cardinality(faulted)
      style == IF opts_fuzz_type # "none" THEN opts_fuzz_type
               ELSE << "crc", "func", "big", "rand" >>[((k - 1) % 4) + 1]
      f == reply.frame
      func_body == << SLAVE_ID, 4, 0, 0 >>
  IN (opts_fuzz > 0 /\ reply.kind = "fuzz")
       => /\ k >= 1
          /\ reply.style = style
          /\ style = "crc" => Len(f) = 8 /\ f[1] = SLAVE_ID /\ Last2(f) = << 0, 0 >>
          /\ style = "func" => f = func_body \o le_crc(func_body)
          /\ style = "big" => Len(f) = 259 /\ SubSeq(f, 1, 3) = << SLAVE_ID, 3, 252 >>
          /\ style = "rand" => /\ Len(f) \in {n + 3 : n \in 5..50}
                               /\ f[1] = SLAVE_ID
                               /\ IsValidFrame(f)

C14_Witness ==
  /\ opts_fuzz = 2 /\ opts_fuzz_type = "none"
  /\ faulted = {1, 3, 5, 7, 9}
  /\ reply.kind = "fuzz" /\ reply.style = "crc"
  /\ Last2(reply.frame) = << 0, 0 >>

\* C16: with fault interval N = 0 no fault-injected frame is ever written,
\* whatever style is configured: every frame written is a normal reply (id,
\* 0x03, 0x02, value, CRC) or an exception reply (id, function | 0x80, 0x02,
\* CRC), and every CRC-valid request read has got one of them.
C16_NoFaultWhenDisabled ==
  LET f == reply.frame
  IN opts_fuzz = 0 =>
       /\ faulted = {}
       /\ reply.kind \in {"none", "ok", "exc"}
       /\ reply.kind # "none" =>
            /\ IsValidFrame(f)
            /\ \/ Len(f) = 7 /\ SubSeq(f, 1, 3) = << SLAVE_ID, 3, 2 >>
               \/ Len(f) = 5 /\ f[1] = SLAVE_ID /\ f[2] >= 128 /\ f[3] = 2
       /\ rpc = "WAIT_ADDRESS" => nwritten = nvalid
       /\ poll = nwritten

C16_Witness ==
  /\ opts_fuzz = 0 /\ opts_fuzz_type = "crc"
  /\ nwritten = 9 /\ nvalid = 9
  /\ reply.kind = "exc"
  /\ rpc = "WAIT_ADDRESS"

\* C18: when the slave-id byte is followed by fewer than 7 bytes before the
\* read times out, the responder goes back to waiting for an address byte and
\* writes nothing, and so it does for a frame with a wrong CRC; neither changes
\* the transaction counter, which always equals the number of frames written.
C18_CounterCountsReplies ==
  /\ [](poll = nwritten)
  /\ [][/\ (rpc = "READ_REQUEST" /\ rpc' # rpc /\ Len(rx) < 7)
             => rpc' = "WAIT_ADDRESS" /\ UNCHANGED << poll, nwritten, reply, faulted >>
        /\ (rpc = "VALIDATE" /\ rpc' # rpc /\ ~IsValidFrame(req))
             => rpc' = "WAIT_ADDRESS" /\ UNCHANGED << poll, nwritten, reply, faulted >>]_vars

C18_Witness ==
  /\ rpc = "WAIT_ADDRESS"
  /\ req = SubSeq(Burst("poll"), 1, 4)
  /\ rx = << >>
  /\ opts_fuzz = 2
  /\ poll = 3 /\ nwritten = 3

\* C17 (as claimed): the responder is stopped only between transactions: when
\* it has stopped, every CRC-valid request it has read has had its reply
\* written.
C17_StopsBetweenTransactions ==
  rpc = "stopped" => nwritten = nvalid

\* C21 (as claimed): every complete, CRC-valid 8-byte request for the slave
\* that appears on the line gets exactly one reply, also when bytes for another
\* slave or noise holding the slave's address come right before it: once the
\* line has been read empty and the responder waits for an address byte, it has
\* written one reply for each such request.
C21_EveryRequestAnswered ==
  (rpc = "WAIT_ADDRESS" /\ rx = << >>) => nwritten = due

\* ------------------------------------------------------------ enumerator

\* C19: whatever arrives on the line (a valid reply, garbage, truncated data or
\* silence), the enumerator writes exactly one request 01 03 reg 00 01 + CRC
\* for each address, in ascending order without a gap, starting with 0x0000,
\* every read returns, and the sweep ends once the request for 0xFFFF has been
\* dealt with (followed over the first and the last RangeLen addresses).
C19_OneRequestPerAddress ==
  /\ [](LET start == IF sweep_reg <= RangeLen THEN 0 ELSE 65536 - RangeLen
            inflight == IF epc \in {"await", "read"} THEN 1 ELSE 0
            request(r) == << 1, 3, r \div 256, r % 256, 0, 1 >>
            r == read_reply(sweep_reg, srx)
        IN /\ nreq = (sweep_reg - start) + inflight
           /\ sweep_reg \in 0..65536
           /\ epc \in {"await", "read"} =>
                wire = request(sweep_reg) \o sweep_le_crc(request(sweep_reg))
           /\ epc = "read" =>
                /\ Len(r.rest) <= Len(srx)
                /\ r.data = None \/ Len(r.data) = 2
           /\ epc = "done" =>
                /\ sweep_reg \in {RangeLen, 65536}
                /\ nreq = RangeLen
                /\ wire = request(sweep_reg - 1) \o sweep_le_crc(request(sweep_reg - 1)))
  /\ [][/\ sweep_reg' \in {sweep_reg, sweep_reg + 1}
        /\ nreq' \in {nreq, nreq + 1}
        /\ nreq' = nreq + 1 <=> (epc = "send" /\ epc' = "await")
        /\ sweep_reg' = sweep_reg + 1 <=> epc = "read"
        /\ epc = "read" => epc' \in {"send", "done"}]_vars
  /\ <>(epc = "done")

C19_Witness ==
  /\ epc = "done"
  /\ sweep_reg = 65536
  /\ nreq = RangeLen
  /\ wire = << 1, 3, 255, 255, 0, 1, 132, 46 >>
  /\ reported = << >>
  /\ srx # << >>

\* C3: a pair is reported for a request iff the bytes read for it are 3 header
\* bytes and exactly byteCount+2 more, the CRC16 of all but the last two equals
\* the last two (little-endian), id = 1, function = 3 and byteCount = 2; the
\* pair is the swept address with the two data bytes, and in either case the
\* sweep moves to the next address.
C3_ReportOnlyStrictReplies ==
  last.reg # -1 =>
    LET frame == last.hdr \o last.payload
        genuine == /\ Len(last.hdr) = 3
                   /\ Len(last.payload) = last.hdr[3] + 2
                   /\ PackHle(crc16(DropLast2(frame))) = Last2(frame)
                   /\ last.hdr[1] = 1 /\ last.hdr[2] = 3 /\ last.hdr[3] = 2
    IN /\ genuine <=> last.data # None
       /\ genuine =>
            /\ reported # << >>
            /\ reported[Len(reported)] = << last.reg, frame[4] * 256 + frame[5] >>
       /\ ~genuine => \A i \in 1..Len(reported) : reported[i][1] # last.reg
       /\ sweep_reg = last.reg + 1
       /\ Len(reported) <= sweep_reg - SweepFirst

C3_Witness ==
  /\ last.reg = POLL_REG
  /\ last.hdr = << 1, 3, 2 >> /\ Len(last.payload) = 4
  /\ last.data = << 18, 52 >>
  /\ reported = << << POLL_REG, 4660 >> >>

\* C4 (as claimed): when the transport answers 0x0051 correctly and everything
\* else with truncated or garbage bytes, the sweep reports exactly one pair,
\* for 0x0051 with the value sent, and nothing for any other address.
C4_OnlyPollRegReported ==
  onScript =>
    /\ \A i \in 1..Len(reported) :
         reported[i][1] = POLL_REG /\ reported[i] \in slaveSent
    /\ epc = "done" => Len(reported) = 1

\* C5 (as claimed): every reported pair carries a value from a reply the slave
\* produced for the request at that same address, late replies included.
C5_ValueFromOwnReply ==
  \A i \in 1..Len(reported) : reported[i] \in slaveSent

====
